---- MODULE Spec2Model ----
(***************************************************************************)
(* Model of the alice dependency-injection container (container.go).       *)
(*                                                                         *)
(* CreateContainer reflects the modules, builds the dependency graph,      *)
(* computes an instantiation order and executes the modules in that order, *)
(* filling the name index and the type index.  Instance / InstanceByName   *)
(* read the indices afterwards.  A Go panic is the state pc = "panic" with *)
(* the kind of the panic in err.                                           *)
(*                                                                         *)
(* reflectModule, createGraph and graph.instantiationOrder are not in      *)
(* container.go; they are modelled from sections 4.1 - 4.3 and 8 of the    *)
(* specification.  Factories are taken to return non-nil values.           *)
(***************************************************************************)
EXTENDS Integers, Sequences, FiniteSets, TLC

\* Largest number of modules passed to CreateContainer.
MaxModules == 3

(***************************************************************************)
(* reflect.Type: a small universe of types.  Store is an interface that    *)
(* Database and Cache implement; Service is a struct implementing nothing. *)
(***************************************************************************)
Types == {"Store", "Database", "Cache", "Service"}

Interfaces == {"Store"}

Implements == [t \in Interfaces |-> {"Database", "Cache"}]

\* reflect.Type.AssignableTo: identical types, or an interface implemented.
AssignableTo(from, to) ==
    \/ from = to
    \/ to \in Interfaces /\ from \in Implements[to]

\* Instance and dependency names.
Names == {"db", "db2", "cache", "svc"}

(***************************************************************************)
(* Modules.  A module carries what reflectModule extracts from it:         *)
(*   namedDepends : fields tagged with a name (name, type of the field)    *)
(*   typedDepends : fields resolved by their type                          *)
(*   instances    : factory methods (name, declared return type tp, and rt *)
(*                  the dynamic type of the value the method returns)      *)
(* malformed marks a module reflectModule rejects.                         *)
(***************************************************************************)
Mod(nd, td, ins) ==
    [malformed |-> FALSE, namedDepends |-> nd, typedDepends |-> td, instances |-> ins]

Fac(n, tp, rt) == [name |-> n, tp |-> tp, rt |-> rt]

NDep(n, ft) == [name |-> n, ftype |-> ft]

mDb    == Mod(<<>>, <<>>, <<Fac("db", "Database", "Database")>>)
mDb2   == Mod(<<>>, <<>>, <<Fac("db2", "Database", "Database")>>)
mStore == Mod(<<>>, <<>>, <<Fac("cache", "Store", "Cache")>>)
mTwo   == Mod(<<>>, <<>>, <<Fac("db", "Database", "Database"), Fac("cache", "Cache", "Cache")>>)
mSvcN  == Mod(<<NDep("db", "Store")>>, <<>>, <<Fac("svc", "Service", "Service")>>)
mSvcT  == Mod(<<>>, <<"Store">>, <<Fac("svc", "Service", "Service")>>)
mSvcNT == Mod(<<NDep("db", "Store")>>, <<"Cache">>, <<Fac("svc", "Service", "Service")>>)
mSelf  == Mod(<<>>, <<"Service">>, <<Fac("svc", "Service", "Service")>>)
mCyc   == Mod(<<NDep("svc", "Service")>>, <<>>, <<Fac("db", "Database", "Database")>>)
mMis   == Mod(<<NDep("db", "Cache")>>, <<>>, <<Fac("cache", "Cache", "Cache")>>)
mBad   == [malformed |-> TRUE, namedDepends |-> <<>>, typedDepends |-> <<>>, instances |-> <<>>]

Catalog == {mDb, mDb2, mStore, mTwo, mSvcN, mSvcT, mSvcNT, mSelf, mCyc, mMis, mBad}

\* The argument lists of CreateContainer: distinct modules, in any order.
ModuleLists ==
    UNION {{s \in [1..n -> Catalog] : \A i, j \in 1..n : s[i] = s[j] => i = j} : n \in 0..MaxModules}

\* The nil interface value.
Nil == [id |-> 0, rt |-> "nil", name |-> "", mod |-> 0]

VARIABLES
    modules,         \* container.modules
    pc,              \* position in CreateContainer / populate
    err,             \* kind of the panic once pc = "panic"
    rms,             \* the reflected modules
    g,               \* the dependency graph: edges <<a, b>>, a depends on b
    orderedRms,      \* the instantiation order, as indices into rms
    pos,             \* position in instantiateModule: <<index in orderedRms, loop, index in loop>>
    instanceByName,  \* container.instanceByName
    instanceByType,  \* container.instanceByType
    fields,          \* the dependency fields of the modules, as injected
    calls,           \* number of invocations of each factory method
    allocs,          \* number of objects the factory methods have allocated
    ret,             \* outcome of the last Instance / InstanceByName call
    seen,            \* for each name, the instances InstanceByName has returned
    first,           \* the container an earlier CreateContainer call on the same modules returned
    callers          \* for each concurrent caller, the position of its query

vars == <<modules, pc, err, rms, g, orderedRms, pos, instanceByName, instanceByType,
          fields, calls, allocs, ret, seen, first, callers>>

\* No earlier container: CreateContainer has been called at most once.
NoFirst == [built |-> FALSE, instanceByName |-> <<>>, instanceByType |-> <<>>, fields |-> <<>>]

\* The goroutines that query the container.
Callers == {"c1", "c2"}

\* A caller that is not inside a query.
Idle == [pc |-> "idle", op |-> "", arg |-> "", k |-> 0, instances |-> <<>>,
         res |-> [ok |-> FALSE, val |-> Nil, err |-> ""]]

\* again: the call is an InstanceByName for a name that was returned before.
NoRet == [op |-> "", arg |-> "", ok |-> FALSE, val |-> Nil, err |-> "", again |-> FALSE]

Init ==
    /\ modules \in ModuleLists
    /\ pc = "reflectModules"
    /\ err = ""
    /\ rms = <<>>
    /\ g = {}
    /\ orderedRms = <<>>
    /\ pos = <<0, "", 0>>
    /\ instanceByName = <<>>
    /\ instanceByType = <<>>
    /\ fields = [m \in DOMAIN modules |->
                    [named |-> [i \in DOMAIN modules[m].namedDepends |-> Nil],
                     typed |-> [i \in DOMAIN modules[m].typedDepends |-> Nil]]]
    /\ calls = [m \in DOMAIN modules |-> [f \in DOMAIN modules[m].instances |-> 0]]
    /\ allocs = 0
    /\ ret = NoRet
    /\ seen = [n \in Names |-> {}]
    /\ first = NoFirst
    /\ callers = [c \in Callers |-> Idle]

(***************************************************************************)
(* reflectModules: reflect every module, panic on the first error.         *)
(***************************************************************************)
reflectModule(m) ==
    IF m.malformed
    THEN [ok |-> FALSE, rm |-> m]
    ELSE [ok |-> TRUE, rm |-> m]

reflectModules ==
    /\ pc = "reflectModules"
    /\ IF \E i \in DOMAIN modules : ~reflectModule(modules[i]).ok
       THEN /\ pc' = "panic"
            /\ err' = "ModuleDescriptionError"
            /\ rms' = rms
       ELSE /\ pc' = "createGraph"
            /\ err' = err
            /\ rms' = [i \in DOMAIN modules |-> reflectModule(modules[i]).rm]
    /\ UNCHANGED <<first, callers, modules, g, orderedRms, pos, instanceByName, instanceByType,
                   fields, calls, allocs, ret, seen>>

(***************************************************************************)
(* createGraph: an edge a -> b for every dependency slot of a that a       *)
(* factory of b can satisfy: the same name for a named slot; for a typed   *)
(* slot the factories declaring exactly the type, or, when there is none,  *)
(* those declaring a type assignable to it.  A slot nothing matches adds   *)
(* no edge.  Two factories with the same name are an error.                *)
(***************************************************************************)
Factories(ms) == UNION {{<<m, f>> : f \in DOMAIN ms[m].instances} : m \in DOMAIN ms}

nameProviders(ms, n) ==
    {b \in DOMAIN ms : \E f \in DOMAIN ms[b].instances : ms[b].instances[f].name = n}

typeProviders(ms, t) ==
    LET exact == {b \in DOMAIN ms :
                     \E f \in DOMAIN ms[b].instances : ms[b].instances[f].tp = t}
        assignable == {b \in DOMAIN ms :
                     \E f \in DOMAIN ms[b].instances : AssignableTo(ms[b].instances[f].tp, t)}
    IN  IF exact # {} THEN exact ELSE assignable

dependsOn(ms, a, b) ==
    \/ \E i \in DOMAIN ms[a].namedDepends : b \in nameProviders(ms, ms[a].namedDepends[i].name)
    \/ \E i \in DOMAIN ms[a].typedDepends : b \in typeProviders(ms, ms[a].typedDepends[i])

graphEdges(ms) == {e \in (DOMAIN ms) \X (DOMAIN ms) : dependsOn(ms, e[1], e[2])}

\* Mutant: factory names are not compared.
duplicatedNameUnchecked(ms) == FALSE

duplicatedName(ms) ==
    \E a, b \in DOMAIN ms : \E f \in DOMAIN ms[a].instances, h \in DOMAIN ms[b].instances :
        /\ <<a, f>> # <<b, h>>
        /\ ms[a].instances[f].name = ms[b].instances[h].name

populateCreateGraph ==
    /\ pc = "createGraph"
    /\ IF duplicatedName(rms)
       THEN /\ pc' = "panic"
            /\ err' = "NameCollisionError"
            /\ g' = g
       ELSE /\ pc' = "instantiationOrder"
            /\ err' = err
            /\ g' = graphEdges(rms)
    /\ UNCHANGED <<first, callers, modules, rms, orderedRms, pos, instanceByName, instanceByType,
                   fields, calls, allocs, ret, seen>>

(***************************************************************************)
(* graph.instantiationOrder: a total order of the modules in which every   *)
(* module comes after the modules it depends on, keeping the input order   *)
(* among modules no dependency orders; an error when the graph has a cycle *)
(* (a module depending on itself included).                                *)
(***************************************************************************)
RECURSIVE instantiationOrderFrom(_, _, _)
instantiationOrderFrom(n, edges, placed) ==
    LET done == {placed[i] : i \in DOMAIN placed}
        ready == {a \in (1..n) \ done : \A b \in 1..n : <<a, b>> \in edges => b \in done}
    IN  IF Len(placed) = n THEN [ok |-> TRUE, order |-> placed]
        ELSE IF ready = {} THEN [ok |-> FALSE, order |-> <<>>]
        ELSE instantiationOrderFrom(n, edges,
                 Append(placed, CHOOSE a \in ready : \A c \in ready : a <= c))

instantiationOrder(n, edges) == instantiationOrderFrom(n, edges, <<>>)

\* Mutant: the error of instantiationOrder is dropped.
populateInstantiationOrderIgnoringErr ==
    /\ pc = "instantiationOrder"
    /\ pc' = "populate"
    /\ err' = err
    /\ orderedRms' = instantiationOrder(Len(rms), g).order
    /\ UNCHANGED <<first, callers, modules, rms, g, pos, instanceByName, instanceByType,
                   fields, calls, allocs, ret, seen>>

populateInstantiationOrder ==
    /\ pc = "instantiationOrder"
    /\ LET r == instantiationOrder(Len(rms), g) IN
       IF ~r.ok
       THEN /\ pc' = "panic"
            /\ err' = "CyclicDependencyError"
            /\ orderedRms' = orderedRms
       ELSE /\ pc' = "populate"
            /\ err' = err
            /\ orderedRms' = r.order
    /\ UNCHANGED <<first, callers, modules, rms, g, pos, instanceByName, instanceByType,
                   fields, calls, allocs, ret, seen>>

(***************************************************************************)
(* Positions in the loops of populate and instantiateModule.  nextPos      *)
(* gives the first loop iteration at or after <<p, loop, i>>, skipping the *)
(* loops that have no iteration left; End when populate's loop is over.    *)
(***************************************************************************)
End == <<0, "end", 0>>

\* Mutant: the factory methods of a module are called before its fields are set.
RECURSIVE nextPosInstancesFirst(_, _, _, _, _)
RECURSIVE nextPosFields(_, _, _, _, _)
nextPosFields(ms, ord, p, loop, i) ==
    LET rm == ms[ord[p]] IN
    IF loop = "namedDepends"
    THEN IF i <= Len(rm.namedDepends) THEN <<p, loop, i>>
         ELSE nextPosFields(ms, ord, p, "typedDepends", 1)
    ELSE IF i <= Len(rm.typedDepends) THEN <<p, loop, i>>
         ELSE nextPosInstancesFirst(ms, ord, p + 1, "namedDepends", 1)

nextPosInstancesFirst(ms, ord, p, loop, i) ==
    IF p > Len(ord) THEN End
    ELSE LET rm == ms[ord[p]] IN
         IF (loop = "namedDepends" /\ i = 1) \/ loop = "instances"
         THEN LET k == IF loop = "instances" THEN i ELSE 1 IN
              IF k <= Len(rm.instances) THEN <<p, "instances", k>>
              ELSE nextPosFields(ms, ord, p, "namedDepends", 1)
         ELSE nextPosFields(ms, ord, p, loop, i)

RECURSIVE nextPos(_, _, _, _, _)
nextPos(ms, ord, p, loop, i) ==
    IF p > Len(ord) THEN End
    ELSE LET rm == ms[ord[p]] IN
         IF loop = "namedDepends"
         THEN IF i <= Len(rm.namedDepends) THEN <<p, loop, i>>
              ELSE nextPos(ms, ord, p, "typedDepends", 1)
         ELSE IF loop = "typedDepends"
         THEN IF i <= Len(rm.typedDepends) THEN <<p, loop, i>>
              ELSE nextPos(ms, ord, p, "instances", 1)
         ELSE IF i <= Len(rm.instances) THEN <<p, loop, i>>
              ELSE nextPos(ms, ord, p + 1, "namedDepends", 1)

\* Mutant: the loop ranges over the modules as given.
loopRangeOverRms == [i \in DOMAIN rms |-> i]

\* The modules populate's loop ranges over, and the one being instantiated.
loopRange == orderedRms

rmIndex == loopRange[pos[1]]

\* Move to the iteration after the current one, or return from populate.
advance ==
    LET n == nextPos(rms, loopRange, pos[1], pos[2], pos[3] + 1) IN
    /\ pos' = n
    /\ pc' = IF n = End THEN "done" ELSE "instantiateModule"

\* Mutant: the loop starts at the second module.
populateInstantiateFromSecond ==
    /\ pc = "populate"
    /\ instanceByName' = <<>>
    /\ instanceByType' = <<>>
    /\ LET n == nextPos(rms, loopRange, 2, "namedDepends", 1) IN
        /\ pos' = n
        /\ pc' = IF n = End THEN "done" ELSE "instantiateModule"
    /\ UNCHANGED <<first, callers, modules, err, rms, g, orderedRms, fields, calls, allocs, ret, seen>>

\* populate, after the order is computed: make the two maps and start the loop.
populateInstantiate ==
    /\ pc = "populate"
    /\ instanceByName' = <<>>
    /\ instanceByType' = <<>>
    /\ LET n == nextPos(rms, loopRange, 1, "namedDepends", 1) IN
        /\ pos' = n
        /\ pc' = IF n = End THEN "done" ELSE "instantiateModule"
    /\ UNCHANGED <<first, callers, modules, err, rms, g, orderedRms, fields, calls, allocs, ret, seen>>

(***************************************************************************)
(* The lookups.  A result is [ok, val, err]: the value, or the panic.      *)
(***************************************************************************)
Found(v) == [ok |-> TRUE, val |-> v, err |-> ""]

Panic(e) == [ok |-> FALSE, val |-> Nil, err |-> e]

\* Mutant: the zero value of the map is returned for an absent name.
findInstanceByNameZeroValue(byName, name) ==
    IF name \in DOMAIN byName
    THEN Found(byName[name])
    ELSE Found(Nil)

findInstanceByName(byName, name) ==
    IF name \in DOMAIN byName
    THEN Found(byName[name])
    ELSE Panic("InstanceNotFoundError")

\* A set as a sequence, in some order (the iteration order of a Go map).
RECURSIVE rangeOver(_)
rangeOver(S) ==
    IF S = {} THEN <<>>
    ELSE LET x == CHOOSE y \in S : TRUE IN <<x>> \o rangeOver(S \ {x})

\* Mutant: the assignability test is reversed.
findAssignableInstancesReversed(byName, t) ==
    LET keys == rangeOver(DOMAIN byName)
        F[k \in 0..Len(keys)] ==
            IF k = 0 THEN <<>>
            ELSE IF AssignableTo(t, byName[keys[k]].rt)
                 THEN Append(F[k - 1], byName[keys[k]])
                 ELSE F[k - 1]
    IN  F[Len(keys)]

\* One entry for every key of the name index whose instance is assignable to t.
findAssignableInstances(byName, t) ==
    LET keys == rangeOver(DOMAIN byName)
        F[k \in 0..Len(keys)] ==
            IF k = 0 THEN <<>>
            ELSE IF AssignableTo(byName[keys[k]].rt, t)
                 THEN Append(F[k - 1], byName[keys[k]])
                 ELSE F[k - 1]
    IN  F[Len(keys)]

\* Mutant: the type index is not consulted.
findInstanceByTypeAssignableOnly(byName, byType, t) ==
    LET instances == findAssignableInstances(byName, t)
    IN  IF Len(instances) = 0 THEN Panic("InstanceNotFoundError")
        ELSE IF Len(instances) > 1 THEN Panic("AmbiguousInstanceError")
        ELSE Found(instances[1])

\* Mutant: the first of several instances is returned.
findInstanceByTypeFirstOfMany(byName, byType, t) ==
    LET ok == t \in DOMAIN byType
        instances == IF ok THEN byType[t] ELSE findAssignableInstances(byName, t)
    IN  IF Len(instances) = 0 THEN Panic("InstanceNotFoundError")
        ELSE Found(instances[1])

findInstanceByType(byName, byType, t) ==
    LET ok == t \in DOMAIN byType
        instances == IF ok THEN byType[t] ELSE findAssignableInstances(byName, t)
    IN  IF Len(instances) = 0 THEN Panic("InstanceNotFoundError")
        ELSE IF Len(instances) > 1 THEN Panic("AmbiguousInstanceError")
        ELSE Found(instances[1])

(***************************************************************************)
(* instantiateModule, one loop iteration at a time.                        *)
(***************************************************************************)
\* Mutant: the field is set to a copy of the instance.
fieldSetCopy(instance, ftype) ==
    IF AssignableTo(instance.rt, ftype)
    THEN Found([instance EXCEPT !.id = 0 - instance.id])
    ELSE Panic("reflect.Set")

\* reflect.Value.Set panics when the value is not assignable to the field.
fieldSet(instance, ftype) ==
    IF AssignableTo(instance.rt, ftype) THEN Found(instance) ELSE Panic("reflect.Set")

instantiateModuleNamed ==
    /\ pc = "instantiateModule"
    /\ pos[2] = "namedDepends"
    /\ LET m == rmIndex
           dep == rms[m].namedDepends[pos[3]]
           r == findInstanceByName(instanceByName, dep.name)
           w == IF r.ok THEN fieldSet(r.val, dep.ftype) ELSE r
       IN  IF w.ok
           THEN /\ fields' = [fields EXCEPT ![m].named[pos[3]] = w.val]
                /\ advance
                /\ err' = err
           ELSE /\ pc' = "panic"
                /\ err' = w.err
                /\ UNCHANGED <<fields, pos>>
    /\ UNCHANGED <<first, callers, modules, rms, g, orderedRms, instanceByName, instanceByType,
                   calls, allocs, ret, seen>>

\* Mutant: a typed dependency that does not resolve is left unset.
instantiateModuleTypedOptional ==
    /\ pc = "instantiateModule"
    /\ pos[2] = "typedDepends"
    /\ LET m == rmIndex
           tp == rms[m].typedDepends[pos[3]]
           r == findInstanceByType(instanceByName, instanceByType, tp)
       IN  /\ fields' = IF r.ok THEN [fields EXCEPT ![m].typed[pos[3]] = r.val] ELSE fields
           /\ advance
           /\ err' = err
    /\ UNCHANGED <<first, callers, modules, rms, g, orderedRms, instanceByName, instanceByType,
                   calls, allocs, ret, seen>>

instantiateModuleTyped ==
    /\ pc = "instantiateModule"
    /\ pos[2] = "typedDepends"
    /\ LET m == rmIndex
           tp == rms[m].typedDepends[pos[3]]
           r == findInstanceByType(instanceByName, instanceByType, tp)
           w == IF r.ok THEN fieldSet(r.val, tp) ELSE r
       IN  IF w.ok
           THEN /\ fields' = [fields EXCEPT ![m].typed[pos[3]] = w.val]
                /\ advance
                /\ err' = err
           ELSE /\ pc' = "panic"
                /\ err' = w.err
                /\ UNCHANGED <<fields, pos>>
    /\ UNCHANGED <<first, callers, modules, rms, g, orderedRms, instanceByName, instanceByType,
                   calls, allocs, ret, seen>>

\* m[k] = v on a Go map: add the key or overwrite its value.
mapStore(m, k, v) == [x \in (DOMAIN m) \cup {k} |-> IF x = k THEN v ELSE m[x]]

\* The value the factory method f of module m returns: a newly allocated object.
methodCall(m, f, n) ==
    [id |-> n + 1, rt |-> rms[m].instances[f].rt, name |-> rms[m].instances[f].name, mod |-> m]

\* Mutant: the factory method is called once for each index.
instantiateModuleInstancesCallingTwice ==
    /\ pc = "instantiateModule"
    /\ pos[2] = "instances"
    /\ LET m == rmIndex
           instanceMethod == rms[m].instances[pos[3]]
           instance == methodCall(m, pos[3], allocs)
           typedInstances == IF instanceMethod.tp \in DOMAIN instanceByType
                             THEN instanceByType[instanceMethod.tp]
                             ELSE <<>>
       IN  /\ calls' = [calls EXCEPT ![m][pos[3]] = @ + 1]
           /\ allocs' = allocs + 2
           /\ instanceByName' = mapStore(instanceByName, instanceMethod.name, instance)
           /\ instanceByType' = mapStore(instanceByType, instanceMethod.tp,
                                         Append(typedInstances, methodCall(m, pos[3], allocs + 1)))
    /\ advance
    /\ UNCHANGED <<first, callers, modules, err, rms, g, orderedRms, fields, ret, seen>>

\* Mutant: the new instance is put in front of the instances of its type.
instantiateModuleInstancesPrepending ==
    /\ pc = "instantiateModule"
    /\ pos[2] = "instances"
    /\ LET m == rmIndex
           instanceMethod == rms[m].instances[pos[3]]
           instance == methodCall(m, pos[3], allocs)
           typedInstances == IF instanceMethod.tp \in DOMAIN instanceByType
                             THEN instanceByType[instanceMethod.tp]
                             ELSE <<>>
       IN  /\ calls' = [calls EXCEPT ![m][pos[3]] = @ + 1]
           /\ allocs' = allocs + 1
           /\ instanceByName' = mapStore(instanceByName, instanceMethod.name, instance)
           /\ instanceByType' = mapStore(instanceByType, instanceMethod.tp,
                                         <<instance>> \o typedInstances)
    /\ advance
    /\ UNCHANGED <<first, callers, modules, err, rms, g, orderedRms, fields, ret, seen>>

\* Mutant: the type list is replaced by the new instance alone.
instantiateModuleInstancesReplacing ==
    /\ pc = "instantiateModule"
    /\ pos[2] = "instances"
    /\ LET m == rmIndex
           instanceMethod == rms[m].instances[pos[3]]
           instance == methodCall(m, pos[3], allocs)
           typedInstances == IF instanceMethod.tp \in DOMAIN instanceByType
                             THEN instanceByType[instanceMethod.tp]
                             ELSE <<>>
       IN  /\ calls' = [calls EXCEPT ![m][pos[3]] = @ + 1]
           /\ allocs' = allocs + 1
           /\ instanceByName' = mapStore(instanceByName, instanceMethod.name, instance)
           /\ instanceByType' = mapStore(instanceByType, instanceMethod.tp,
                                         <<instance>>)
    /\ advance
    /\ UNCHANGED <<first, callers, modules, err, rms, g, orderedRms, fields, ret, seen>>

instantiateModuleInstances ==
    /\ pc = "instantiateModule"
    /\ pos[2] = "instances"
    /\ LET m == rmIndex
           instanceMethod == rms[m].instances[pos[3]]
           instance == methodCall(m, pos[3], allocs)
           typedInstances == IF instanceMethod.tp \in DOMAIN instanceByType
                             THEN instanceByType[instanceMethod.tp]
                             ELSE <<>>
       IN  /\ calls' = [calls EXCEPT ![m][pos[3]] = @ + 1]
           /\ allocs' = allocs + 1
           /\ instanceByName' = mapStore(instanceByName, instanceMethod.name, instance)
           /\ instanceByType' = mapStore(instanceByType, instanceMethod.tp,
                                         Append(typedInstances, instance))
    /\ advance
    /\ UNCHANGED <<first, callers, modules, err, rms, g, orderedRms, fields, ret, seen>>

(***************************************************************************)
(* The query API, available once CreateContainer has returned.  A panic of *)
(* a query unwinds the call and leaves the container as it is.             *)
(***************************************************************************)
\* Mutant: the result of the assignable search is stored in the type index.
InstanceMemoizing(t) ==
    /\ pc = "done"
    /\ LET r == findInstanceByType(instanceByName, instanceByType, t) IN
        /\ ret' = [op |-> "Instance", arg |-> t, ok |-> r.ok, val |-> r.val, err |-> r.err,
                   again |-> FALSE]
        /\ instanceByType' = IF r.ok /\ t \notin DOMAIN instanceByType
                              THEN mapStore(instanceByType, t, <<r.val>>)
                              ELSE instanceByType
    /\ UNCHANGED <<first, callers, modules, pc, err, rms, g, orderedRms, pos, instanceByName,
                   fields, calls, allocs, seen>>

Instance(t) ==
    /\ pc = "done"
    /\ LET r == findInstanceByType(instanceByName, instanceByType, t) IN
        ret' = [op |-> "Instance", arg |-> t, ok |-> r.ok, val |-> r.val, err |-> r.err,
                again |-> FALSE]
    /\ UNCHANGED <<first, callers, modules, pc, err, rms, g, orderedRms, pos, instanceByName,
                   instanceByType, fields, calls, allocs, seen>>

\* Mutant: every call hands out a new object.
InstanceByNamePrototype(name) ==
    /\ pc = "done"
    /\ LET r == findInstanceByName(instanceByName, name)
           v == IF r.ok THEN [r.val EXCEPT !.id = allocs + 1] ELSE r.val
       IN  /\ ret' = [op |-> "InstanceByName", arg |-> name, ok |-> r.ok, val |-> v,
                      err |-> r.err, again |-> seen[name] # {}]
           /\ seen' = IF r.ok THEN [seen EXCEPT ![name] = @ \cup {v}] ELSE seen
           /\ allocs' = IF r.ok THEN allocs + 1 ELSE allocs
    /\ UNCHANGED <<first, callers, modules, pc, err, rms, g, orderedRms, pos, instanceByName,
                   instanceByType, fields, calls>>

InstanceByName(name) ==
    /\ pc = "done"
    /\ LET r == findInstanceByName(instanceByName, name) IN
        /\ ret' = [op |-> "InstanceByName", arg |-> name, ok |-> r.ok, val |-> r.val,
                   err |-> r.err, again |-> seen[name] # {}]
        /\ seen' = IF r.ok THEN [seen EXCEPT ![name] = @ \cup {r.val}] ELSE seen
    /\ UNCHANGED <<first, callers, modules, pc, err, rms, g, orderedRms, pos, instanceByName,
                   instanceByType, fields, calls, allocs>>

Next ==
    \/ reflectModules
    \/ populateCreateGraph
    \/ populateInstantiationOrder
    \/ populateInstantiate
    \/ instantiateModuleNamed
    \/ instantiateModuleTyped
    \/ instantiateModuleInstances
    \/ \E t \in Types : Instance(t)
    \/ \E name \in Names : InstanceByName(name)

Spec == Init /\ [][Next]_vars

(***************************************************************************)
(* A second CreateContainer call on the same modules.  The call builds a   *)
(* new container value with maps of its own; the modules are the same      *)
(* objects, so their dependency fields are the ones the first call set.    *)
(* calls counts the invocations made for the container under construction. *)
(***************************************************************************)
CreateContainerAgain ==
    /\ pc = "done"
    /\ ~first.built
    /\ first' = [built |-> TRUE, instanceByName |-> instanceByName,
                 instanceByType |-> instanceByType, fields |-> fields]
    /\ pc' = "reflectModules"
    /\ rms' = <<>>
    /\ g' = {}
    /\ orderedRms' = <<>>
    /\ pos' = <<0, "", 0>>
    /\ instanceByName' = <<>>
    /\ instanceByType' = <<>>
    /\ calls' = [m \in DOMAIN modules |-> [f \in DOMAIN modules[m].instances |-> 0]]
    /\ ret' = NoRet
    /\ seen' = [n \in Names |-> {}]
    /\ UNCHANGED <<callers, modules, err, fields, allocs>>

NextTwo ==
    \/ Next
    \/ CreateContainerAgain

SpecTwo == Init /\ [][NextTwo]_vars

(***************************************************************************)
(* Concurrent queries.  Each caller runs Instance or InstanceByName one    *)
(* map access at a time; the steps of different callers interleave.        *)
(***************************************************************************)
Calling(c) == pc = "done" /\ callers[c].pc \in {"idle", "ret"}

\* InstanceByName: findInstanceByName is one read of the name index.
callInstanceByName(c, name) ==
    /\ Calling(c)
    /\ callers' = [callers EXCEPT ![c] =
           [pc |-> "ret", op |-> "InstanceByName", arg |-> name, k |-> 0, instances |-> <<>>,
            res |-> findInstanceByName(instanceByName, name)]]
    /\ UNCHANGED <<first, modules, pc, err, rms, g, orderedRms, pos, instanceByName,
                   instanceByType, fields, calls, allocs, ret, seen>>

\* Instance: findInstanceByType starts with a read of the type index.
callInstance(c, t) ==
    /\ Calling(c)
    /\ LET ok == t \in DOMAIN instanceByType IN
        callers' = [callers EXCEPT ![c] =
           [pc |-> IF ~ok /\ DOMAIN instanceByName # {} THEN "range" ELSE "check",
            op |-> "Instance", arg |-> t, k |-> 1,
            instances |-> IF ok THEN instanceByType[t] ELSE <<>>, res |-> Idle.res]]
    /\ UNCHANGED <<first, modules, pc, err, rms, g, orderedRms, pos, instanceByName,
                   instanceByType, fields, calls, allocs, ret, seen>>

\* Mutant: an iteration that finds an assignable instance caches it in the type index.
findAssignableInstancesStepCaching(c) ==
    /\ pc = "done"
    /\ callers[c].pc = "range"
    /\ LET keys == rangeOver(DOMAIN instanceByName)
           instance == instanceByName[keys[callers[c].k]]
           hit == AssignableTo(instance.rt, callers[c].arg)
       IN  /\ callers' = [callers EXCEPT
                  ![c].instances = IF hit THEN Append(@, instance) ELSE @,
                  ![c].k = @ + 1,
                  ![c].pc = IF callers[c].k = Len(keys) THEN "check" ELSE "range"]
           /\ instanceByType' = IF hit
                                 THEN mapStore(instanceByType, callers[c].arg, <<instance>>)
                                 ELSE instanceByType
    /\ UNCHANGED <<first, modules, pc, err, rms, g, orderedRms, pos, instanceByName,
                   fields, calls, allocs, ret, seen>>

\* One iteration of the loop of findAssignableInstances over the name index.
findAssignableInstancesStep(c) ==
    /\ pc = "done"
    /\ callers[c].pc = "range"
    /\ LET keys == rangeOver(DOMAIN instanceByName)
           instance == instanceByName[keys[callers[c].k]]
       IN  callers' = [callers EXCEPT
              ![c].instances = IF AssignableTo(instance.rt, callers[c].arg)
                               THEN Append(@, instance) ELSE @,
              ![c].k = @ + 1,
              ![c].pc = IF callers[c].k = Len(keys) THEN "check" ELSE "range"]
    /\ UNCHANGED <<first, modules, pc, err, rms, g, orderedRms, pos, instanceByName,
                   instanceByType, fields, calls, allocs, ret, seen>>

\* The length tests of findInstanceByType and its return.
findInstanceByTypeReturn(c) ==
    /\ pc = "done"
    /\ callers[c].pc = "check"
    /\ LET instances == callers[c].instances IN
        callers' = [callers EXCEPT
           ![c].pc = "ret",
           ![c].res = IF Len(instances) = 0 THEN Panic("InstanceNotFoundError")
                      ELSE IF Len(instances) > 1 THEN Panic("AmbiguousInstanceError")
                      ELSE Found(instances[1])]
    /\ UNCHANGED <<first, modules, pc, err, rms, g, orderedRms, pos, instanceByName,
                   instanceByType, fields, calls, allocs, ret, seen>>

NextConc ==
    \/ reflectModules
    \/ populateCreateGraph
    \/ populateInstantiationOrder
    \/ populateInstantiate
    \/ instantiateModuleNamed
    \/ instantiateModuleTyped
    \/ instantiateModuleInstances
    \/ \E c \in Callers, name \in Names : callInstanceByName(c, name)
    \/ \E c \in Callers, t \in Types : callInstance(c, t)
    \/ \E c \in Callers : findAssignableInstancesStep(c)
    \/ \E c \in Callers : findInstanceByTypeReturn(c)

SpecConc == Init /\ [][NextConc]_vars

TypeOK ==
    /\ pc \in {"reflectModules", "createGraph", "instantiationOrder", "populate",
                "instantiateModule", "done", "panic"}
    /\ DOMAIN instanceByName \subseteq Names
    /\ DOMAIN instanceByType \subseteq Types
    /\ allocs \in 0..(4 * MaxModules)
    /\ first.built \in BOOLEAN
    /\ \A c \in Callers : callers[c].pc \in {"idle", "range", "check", "ret"}

(***************************************************************************)
(* Vocabulary of the properties, in terms of the modules as given.         *)
(***************************************************************************)
WellFormed(ms) == \A i \in DOMAIN ms : ~ms[i].malformed

\* Some module depends, directly or transitively, on itself: there is a set of
\* modules each of which depends on a module of the set.
HasCycle(ms) ==
    \E S \in SUBSET DOMAIN ms :
        /\ S # {}
        /\ \A a \in S : \E b \in S : dependsOn(ms, a, b)

\* Well-formed modules, distinct factory names, no dependency cycle.
AcyclicModules == WellFormed(modules) /\ ~duplicatedName(modules) /\ ~HasCycle(modules)

\* Well-formed modules, distinct factory names, and a dependency cycle.
CyclicModules == WellFormed(modules) /\ ~duplicatedName(modules) /\ HasCycle(modules)

\* The instances registered so far, and the declared type of the factory of one.
Registered == {instanceByName[n] : n \in DOMAIN instanceByName}

declaredType(instance) ==
    LET ins == modules[instance.mod].instances
        f == CHOOSE k \in DOMAIN ins : ins[k].name = instance.name
    IN  ins[f].tp

\* The slot populate is at has exactly one match among the registered instances.
CurrentSlotResolves ==
    LET m == orderedRms[pos[1]] IN
    IF pos[2] = "namedDepends"
    THEN LET dep == modules[m].namedDepends[pos[3]] IN
         /\ \E i \in Registered : i.name = dep.name
         /\ \A i \in Registered : i.name = dep.name => AssignableTo(i.rt, dep.ftype)
    ELSE LET t == modules[m].typedDepends[pos[3]]
             exact == {i \in Registered : declaredType(i) = t}
             assignable == {i \in Registered : AssignableTo(i.rt, t)}
         IN  IF exact # {} THEN Cardinality(exact) = 1 ELSE Cardinality(assignable) = 1

AtSlot == pos[2] \in {"namedDepends", "typedDepends"}

InvokedOnce == \A x \in Factories(modules) : calls[x[1]][x[2]] = 1

(***************************************************************************)
(* C1, as stated: every acyclic set of modules is constructed without a    *)
(* panic and every factory is invoked exactly once.                        *)
(***************************************************************************)
C1_AcyclicAlwaysSucceeds ==
    AcyclicModules =>
        /\ pc # "panic"
        /\ \A x \in Factories(modules) : calls[x[1]][x[2]] <= 1
        /\ pc = "done" => InvokedOnce

(***************************************************************************)
(* C1, amended: for an acyclic set of well-formed modules with distinct    *)
(* factory names, construction panics only where a dependency slot does    *)
(* not resolve when its module is executed; when construction succeeds     *)
(* every factory has been invoked exactly once, and no factory is ever     *)
(* invoked twice, also not by the Instance / InstanceByName calls after.   *)
(***************************************************************************)
C1_FactoriesInvokedOnce ==
    /\ \A x \in Factories(modules) : calls[x[1]][x[2]] <= 1
    /\ pc = "done" => InvokedOnce
    /\ (AcyclicModules /\ pc = "panic") =>
           /\ AtSlot
           /\ ~CurrentSlotResolves
           /\ err \in {"InstanceNotFoundError", "AmbiguousInstanceError", "reflect.Set"}

C1_Witness ==
    /\ pc = "done"
    /\ Len(modules) >= 2
    /\ \E m \in DOMAIN modules : Len(modules[m].namedDepends) > 0
    /\ InvokedOnce
    /\ ret.op = "Instance"
    /\ \E n \in Names : seen[n] # {}

(***************************************************************************)
(* C2: while a module is instantiated, every module with a factory that    *)
(* provides one of its named or typed dependencies has been instantiated   *)
(* already, all its factories invoked, whatever the input order.           *)
(***************************************************************************)
Started(a) ==
    \/ \E i \in DOMAIN fields[a].named : fields[a].named[i] # Nil
    \/ \E i \in DOMAIN fields[a].typed : fields[a].typed[i] # Nil
    \/ \E f \in DOMAIN calls[a] : calls[a][f] > 0

Instantiated(b) == \A f \in DOMAIN calls[b] : calls[b][f] = 1

C2_ProvidersFirst ==
    /\ pc = "instantiateModule" =>
           \A b \in DOMAIN modules :
               dependsOn(modules, rmIndex, b) => Instantiated(b)
    /\ \A a, b \in DOMAIN modules :
           (Started(a) /\ dependsOn(modules, a, b)) => Instantiated(b)

C2_Witness ==
    /\ pc = "instantiateModule"
    /\ Len(modules) >= 2
    /\ dependsOn(modules, 1, 2)
    /\ rmIndex = 1
    /\ pos[2] = "instances"
    /\ Len(modules[1].namedDepends) > 0
    /\ fields[1].named[1] \in Registered
    /\ fields[1].named[1].mod = 2

(***************************************************************************)
(* C3: for well-formed modules with distinct factory names whose           *)
(* dependency graph has a cycle (a module depending on its own factory     *)
(* included), CreateContainer panics with the cyclic-dependency error,     *)
(* with no factory invoked and no instance registered; and no set of       *)
(* modules with a cycle ever yields a container or an instance.            *)
(***************************************************************************)
NothingCreated ==
    /\ allocs = 0
    /\ \A x \in Factories(modules) : calls[x[1]][x[2]] = 0
    /\ DOMAIN instanceByName = {}
    /\ DOMAIN instanceByType = {}

C3_CycleRejected ==
    /\ (CyclicModules /\ pc \notin {"reflectModules", "createGraph", "instantiationOrder"}) =>
           /\ pc = "panic"
           /\ err = "CyclicDependencyError"
    /\ HasCycle(modules) => (pc # "done" /\ NothingCreated)

C3_Witness ==
    /\ pc = "panic"
    /\ err = "CyclicDependencyError"
    /\ \A a \in DOMAIN modules : ~dependsOn(modules, a, a)
    /\ NothingCreated

(***************************************************************************)
(* C4: when two modules declare factories with the same name,              *)
(* CreateContainer panics; it never returns a container.                   *)
(***************************************************************************)
CollidingModules ==
    \E a, b \in DOMAIN modules :
        /\ a # b
        /\ \E f \in DOMAIN modules[a].instances, h \in DOMAIN modules[b].instances :
               modules[a].instances[f].name = modules[b].instances[h].name

C4_NameCollisionFails ==
    CollidingModules =>
        /\ pc # "done"
        /\ pc \notin {"reflectModules", "createGraph"} => pc = "panic"
        /\ NothingCreated

C4_Witness ==
    /\ CollidingModules
    /\ pc = "panic"
    /\ err = "NameCollisionError"

(***************************************************************************)
(* Factories by what they declare and produce.                             *)
(***************************************************************************)
factory(x) == modules[x[1]].instances[x[2]]

\* The factories declaring exactly the type t.
Declaring(t) == {x \in Factories(modules) : factory(x).tp = t}

\* The factories whose instance has a runtime type assignable to t.
Producing(t) == {x \in Factories(modules) : AssignableTo(factory(x).rt, t)}

\* The factories declared with the name n.
Named(n) == {x \in Factories(modules) : factory(x).name = n}

\* v is the instance the factory x produced during construction.
madeBy(v, x) ==
    /\ v \in Registered
    /\ v.mod = x[1]
    /\ v.name = factory(x).name
    /\ v.rt = factory(x).rt

(***************************************************************************)
(* C5: after construction, Instance(T) returns the instance of the only    *)
(* factory declaring type T, whatever other instances are assignable to T, *)
(* and panics with the ambiguous-instance error when two or more factories *)
(* declare T.                                                              *)
(***************************************************************************)
C5_ExactType ==
    (pc = "done" /\ ret.op = "Instance") =>
        LET D == Declaring(ret.arg) IN
        /\ Cardinality(D) = 1 => (ret.ok /\ \A x \in D : madeBy(ret.val, x))
        /\ Cardinality(D) >= 2 => (~ret.ok /\ ret.err = "AmbiguousInstanceError")

C5_Witness ==
    /\ pc = "done"
    /\ ret.op = "Instance"
    /\ ret.ok
    /\ Cardinality(Declaring(ret.arg)) = 1
    /\ Cardinality(Producing(ret.arg)) >= 2

(***************************************************************************)
(* C6: after construction, for a type T no factory declares, Instance(T)   *)
(* returns the only registered instance whose runtime type is assignable   *)
(* to T, panics with instance-not-found when there is none and with the    *)
(* ambiguous-instance error when there are two or more.                    *)
(***************************************************************************)
C6_AssignableFallback ==
    (pc = "done" /\ ret.op = "Instance" /\ Declaring(ret.arg) = {}) =>
        LET A == Producing(ret.arg) IN
        /\ Cardinality(A) = 1 => (ret.ok /\ \A x \in A : madeBy(ret.val, x))
        /\ A = {} => (~ret.ok /\ ret.err = "InstanceNotFoundError")
        /\ Cardinality(A) >= 2 => (~ret.ok /\ ret.err = "AmbiguousInstanceError")

C6_Witness ==
    /\ pc = "done"
    /\ ret.op = "Instance"
    /\ Declaring(ret.arg) = {}
    /\ Cardinality(Producing(ret.arg)) = 1
    /\ ret.ok
    /\ ret.val.rt # ret.arg

(***************************************************************************)
(* C7: after construction, InstanceByName(n) returns the instance of the   *)
(* factory named n, and panics with instance-not-found for a name no       *)
(* factory declares.                                                       *)
(***************************************************************************)
C7_ByName ==
    (pc = "done" /\ ret.op = "InstanceByName") =>
        LET D == Named(ret.arg) IN
        /\ D # {} => (ret.ok /\ \A x \in D : madeBy(ret.val, x))
        /\ D = {} => (~ret.ok /\ ret.err = "InstanceNotFoundError")

C7_Witness ==
    /\ pc = "done"
    /\ ret.op = "InstanceByName"
    /\ ret.ok
    /\ ret.val.name = ret.arg
    /\ \E n \in Names : Named(n) # {} /\ n # ret.arg

(***************************************************************************)
(* C8: when the dependency slot a module is executed at matches no         *)
(* registered instance, CreateContainer panics with instance-not-found;    *)
(* after a panic no container is returned, and a container that is         *)
(* returned has every dependency slot of every module injected.            *)
(***************************************************************************)
CurrentSlotUnmatched ==
    LET m == orderedRms[pos[1]] IN
    IF pos[2] = "namedDepends"
    THEN \A i \in Registered : i.name # modules[m].namedDepends[pos[3]].name
    ELSE \A i \in Registered :
            /\ declaredType(i) # modules[m].typedDepends[pos[3]]
            /\ ~AssignableTo(i.rt, modules[m].typedDepends[pos[3]])

AllInjected ==
    \A m \in DOMAIN modules :
        /\ \A i \in DOMAIN fields[m].named : fields[m].named[i] \in Registered
        /\ \A i \in DOMAIN fields[m].typed : fields[m].typed[i] \in Registered

UnmatchedSlotPanics ==
    /\ (pc = "instantiateModule" /\ AtSlot /\ CurrentSlotUnmatched) =>
           (pc' = "panic" /\ err' = "InstanceNotFoundError")
    /\ pc = "panic" => pc' = "panic"

C8_UnmatchedSlotFails ==
    /\ [](pc = "done" => AllInjected)
    /\ [][UnmatchedSlotPanics]_vars

C8_Witness ==
    /\ pc = "panic"
    /\ err = "InstanceNotFoundError"
    /\ pos[2] = "typedDepends"
    /\ CurrentSlotUnmatched
    /\ allocs > 0

(***************************************************************************)
(* C9: all the InstanceByName calls for one name return the same object,   *)
(* whatever calls are made between them.                                   *)
(***************************************************************************)
C9_SameInstance ==
    /\ \A n \in Names : Cardinality(seen[n]) <= 1
    /\ (ret.op = "InstanceByName" /\ ret.ok) => seen[ret.arg] = {ret.val}

C9_Witness ==
    /\ pc = "done"
    /\ ret.op = "InstanceByName"
    /\ ret.ok
    /\ ret.again
    /\ \E n \in Names : n # ret.arg /\ seen[n] # {}

(***************************************************************************)
(* C10: once CreateContainer has returned, no Instance or InstanceByName   *)
(* call, returning or panicking, changes the name index or the type index, *)
(* invokes a factory or touches a dependency field; the container stays    *)
(* returned and answers every query as before.                             *)
(***************************************************************************)
C10_Sealed ==
    [][pc = "done" =>
          /\ pc' = "done"
          /\ instanceByName' = instanceByName
          /\ instanceByType' = instanceByType
          /\ calls' = calls
          /\ fields' = fields
          /\ \A t \in Types :
                 findInstanceByType(instanceByName', instanceByType', t)
                     = findInstanceByType(instanceByName, instanceByType, t)
          /\ \A n \in Names :
                 findInstanceByName(instanceByName', n) = findInstanceByName(instanceByName, n)]_vars

C10_Witness ==
    /\ pc = "done"
    /\ ret.op = "Instance"
    /\ ~ret.ok
    /\ ret.err = "AmbiguousInstanceError"
    /\ \E n \in Names : seen[n] # {}

(***************************************************************************)
(* C12: during construction both indices are append-only: a name bound in  *)
(* the name index keeps its instance, and the list of a type in the type   *)
(* index only grows at its end, the entries it has keeping their position. *)
(***************************************************************************)
NamesKept ==
    \A n \in DOMAIN instanceByName :
        /\ n \in DOMAIN instanceByName'
        /\ instanceByName'[n] = instanceByName[n]

TypeListsExtended ==
    \A t \in DOMAIN instanceByType :
        /\ t \in DOMAIN instanceByType'
        /\ Len(instanceByType'[t]) >= Len(instanceByType[t])
        /\ SubSeq(instanceByType'[t], 1, Len(instanceByType[t])) = instanceByType[t]

C12_AppendOnly == [][pc # "done" => (NamesKept /\ TypeListsExtended)]_vars

C12_Witness ==
    /\ pc = "instantiateModule"
    /\ \E t \in DOMAIN instanceByType : Len(instanceByType[t]) >= 2
    /\ Cardinality(DOMAIN instanceByName) >= 2

(***************************************************************************)
(* C14: a typed slot of type T is resolved against the instances of the    *)
(* factories invoked so far, which all belong to modules executed earlier: *)
(* the instance of the only such factory declaring T; the ambiguity panic  *)
(* when several declare T; when none declares T, the instance of the only  *)
(* one producing a type assignable to T, not-found when there is none and  *)
(* the ambiguity panic when there are several.  Instances registered later *)
(* play no part.                                                           *)
(***************************************************************************)
Invoked == {x \in Factories(modules) : calls[x[1]][x[2]] >= 1}

\* The modules at the positions of the instantiation order before the current one.
ExecutedEarlier == {orderedRms[p] : p \in 1..(pos[1] - 1)}

TypedSlotStep ==
    LET m == orderedRms[pos[1]]
        t == modules[m].typedDepends[pos[3]]
        exact == {x \in Invoked : factory(x).tp = t}
        assignable == {x \in Invoked : AssignableTo(factory(x).rt, t)}
        candidates == IF exact # {} THEN exact ELSE assignable
    IN  /\ \A x \in Invoked : x[1] \in ExecutedEarlier
        /\ Cardinality(candidates) = 1 =>
               /\ pc' # "panic"
               /\ \A x \in candidates : madeBy(fields'[m].typed[pos[3]], x)
        /\ candidates = {} => (pc' = "panic" /\ err' = "InstanceNotFoundError")
        /\ Cardinality(candidates) >= 2 => (pc' = "panic" /\ err' = "AmbiguousInstanceError")

C14_TypedSlotResolution ==
    [][(pc = "instantiateModule" /\ pos[2] = "typedDepends") => TypedSlotStep]_vars

\* A typed slot was filled, and an instance that would also match it was registered
\* after the module of the slot had been executed.
C14_Witness ==
    /\ pc = "done"
    /\ \E m \in DOMAIN modules : \E i \in DOMAIN modules[m].typedDepends :
           /\ fields[m].typed[i] \in Registered
           /\ \E u, w \in Registered :
                  /\ u.mod = m
                  /\ w.id > u.id
                  /\ AssignableTo(w.rt, modules[m].typedDepends[i])

(***************************************************************************)
(* C15: in every state of the registry the instances of the name index are *)
(* the instances of the type index, so for every type the assignable       *)
(* search over the name index finds the matches a search over all entries  *)
(* of the type index would find.                                           *)
(***************************************************************************)
TypeIndexed ==
    UNION {{instanceByType[t][i] : i \in DOMAIN instanceByType[t]} : t \in DOMAIN instanceByType}

assignableInTypeIndex(t) == {v \in TypeIndexed : AssignableTo(v.rt, t)}

assignableInNameIndex(t) ==
    LET found == findAssignableInstances(instanceByName, t) IN
    {found[i] : i \in DOMAIN found}

C15_IndicesAgree ==
    /\ Registered = TypeIndexed
    /\ \A t \in Types :
           /\ assignableInNameIndex(t) = assignableInTypeIndex(t)
           /\ Len(findAssignableInstances(instanceByName, t))
                  = Cardinality(assignableInTypeIndex(t))

C15_Witness ==
    /\ pc = "instantiateModule"
    /\ Cardinality(Registered) >= 2
    /\ Cardinality(assignableInNameIndex("Store")) >= 2
    /\ "Store" \notin DOMAIN instanceByType

(***************************************************************************)
(* C16: within one module the named slots are set first, then the typed    *)
(* slots, and only then are the factories invoked; so no slot of a module  *)
(* holds an instance of that module's own factories, and when a slot does  *)
(* not resolve none of the module's factories has run.                     *)
(***************************************************************************)
NamedSet(m) == \A i \in DOMAIN fields[m].named : fields[m].named[i] # Nil

TypedSet(m) == \A i \in DOMAIN fields[m].typed : fields[m].typed[i] # Nil

C16_SlotsBeforeFactories ==
    /\ \A m \in DOMAIN modules :
           /\ (\E f \in DOMAIN calls[m] : calls[m][f] > 0) => (NamedSet(m) /\ TypedSet(m))
           /\ (\E i \in DOMAIN fields[m].typed : fields[m].typed[i] # Nil) => NamedSet(m)
           /\ \A i \in DOMAIN fields[m].named : fields[m].named[i].mod # m
           /\ \A i \in DOMAIN fields[m].typed : fields[m].typed[i].mod # m
    /\ (pc \in {"instantiateModule", "panic"} /\ AtSlot) =>
           \A f \in DOMAIN calls[orderedRms[pos[1]]] : calls[orderedRms[pos[1]]][f] = 0

C16_Witness ==
    /\ pc = "panic"
    /\ pos[2] = "typedDepends"
    /\ NamedSet(orderedRms[pos[1]])
    /\ Len(modules[orderedRms[pos[1]]].namedDepends) > 0
    /\ \A f \in DOMAIN calls[orderedRms[pos[1]]] : calls[orderedRms[pos[1]]][f] = 0
    /\ allocs > 0

(***************************************************************************)
(* C17: the instance injected into a named slot with name n is the very    *)
(* instance the name index holds under n from then on, so it is the one    *)
(* InstanceByName(n) returns after construction: no later registration     *)
(* rebinds n.                                                              *)
(***************************************************************************)
C17_InjectedIsRegistered ==
    /\ \A m \in DOMAIN modules : \A i \in DOMAIN fields[m].named :
           fields[m].named[i] # Nil =>
               /\ modules[m].namedDepends[i].name \in DOMAIN instanceByName
               /\ instanceByName[modules[m].namedDepends[i].name] = fields[m].named[i]
    /\ (pc = "done" /\ ret.op = "InstanceByName" /\ ret.ok) =>
           \A m \in DOMAIN modules : \A i \in DOMAIN fields[m].named :
               modules[m].namedDepends[i].name = ret.arg => fields[m].named[i] = ret.val

C17_Witness ==
    /\ pc = "done"
    /\ ret.op = "InstanceByName"
    /\ ret.ok
    /\ \E m \in DOMAIN modules : \E i \in DOMAIN fields[m].named :
           /\ modules[m].namedDepends[i].name = ret.arg
           /\ fields[m].named[i] = ret.val
           /\ \E u, w \in Registered : u.mod = m /\ w.id > u.id

(***************************************************************************)
(* C18: in every reachable registry state each type key of the type index  *)
(* maps to a non-empty list, the type lists together hold as many entries  *)
(* as factories have been invoked so far, and a type key is present        *)
(* exactly when a factory invoked so far declares that exact type, so the  *)
(* assignable fallback of findInstanceByType is taken exactly when none    *)
(* does.                                                                   *)
(***************************************************************************)
TypeEntries ==
    UNION {{<<t, i>> : i \in DOMAIN instanceByType[t]} : t \in DOMAIN instanceByType}

Invocations ==
    UNION {{<<x, k>> : k \in 1..calls[x[1]][x[2]]} : x \in Factories(modules)}

C18_TypeIndexShape ==
    /\ \A t \in DOMAIN instanceByType : Len(instanceByType[t]) >= 1
    /\ Cardinality(TypeEntries) = Cardinality(Invocations)
    /\ \A t \in Types :
           t \in DOMAIN instanceByType <=> \E x \in Invoked : factory(x).tp = t
    /\ (pc = "done" /\ ret.op = "Instance" /\ Declaring(ret.arg) \cap Invoked # {}) =>
           /\ ret.ok <=> Cardinality(Declaring(ret.arg) \cap Invoked) = 1
           /\ ret.ok => \E x \in Declaring(ret.arg) \cap Invoked :
                            ret.val.mod = x[1] /\ ret.val.name = factory(x).name
    /\ (pc = "done" /\ ret.op = "Instance" /\ Declaring(ret.arg) \cap Invoked = {}) =>
           /\ ret.ok => ret.val \in Registered /\ AssignableTo(ret.val.rt, ret.arg)
           /\ ret.err = "InstanceNotFoundError" =>
                  \A v \in Registered : ~AssignableTo(v.rt, ret.arg)

C18_Witness ==
    /\ pc = "done"
    /\ \E t \in DOMAIN instanceByType : Len(instanceByType[t]) >= 2
    /\ Cardinality(TypeEntries) >= 3
    /\ ret.op = "Instance"
    /\ ret.arg \notin DOMAIN instanceByType
    /\ ret.ok

(***************************************************************************)
(* C13: two CreateContainer calls on the same modules yield independent    *)
(* containers: the second call invokes every factory once for its own      *)
(* container, the two registries hold distinct instances under the same    *)
(* names and types, and building the second container changes nothing of   *)
(* the first, including the values injected into the dependency slots of   *)
(* the shared modules.                                                     *)
(***************************************************************************)
SecondBuilt == first.built /\ pc = "done"

DistinctInstances ==
    /\ DOMAIN instanceByName = DOMAIN first.instanceByName
    /\ \A n \in DOMAIN instanceByName :
           /\ instanceByName[n].id # first.instanceByName[n].id
           /\ instanceByName[n].rt = first.instanceByName[n].rt
    /\ DOMAIN instanceByType = DOMAIN first.instanceByType
    /\ \A t \in DOMAIN instanceByType :
           /\ Len(instanceByType[t]) = Len(first.instanceByType[t])
           /\ \A i \in DOMAIN instanceByType[t] : \A j \in DOMAIN first.instanceByType[t] :
                  instanceByType[t][i].id # first.instanceByType[t][j].id

SlotsOfFirstKept == fields = first.fields

C13_IndependentContainers ==
    /\ SecondBuilt => InvokedOnce /\ DistinctInstances
    /\ first.built => SlotsOfFirstKept

C13_Witness ==
    /\ SecondBuilt
    /\ \E m \in DOMAIN modules : \E i \in DOMAIN fields[m].named :
           /\ first.fields[m].named[i] \in {first.instanceByName[n] : n \in DOMAIN first.instanceByName}
           /\ fields[m].named[i] \in Registered
           /\ fields[m].named[i] # first.fields[m].named[i]

(***************************************************************************)
(* C11: after construction, under every interleaving of the steps of       *)
(* concurrent Instance and InstanceByName calls, each call returns the     *)
(* result it returns when run alone, and no step changes the registry.     *)
(***************************************************************************)
\* The result of the call of caller c when no other caller runs.
Alone(c) ==
    IF callers[c].op = "Instance"
    THEN findInstanceByType(instanceByName, instanceByType, callers[c].arg)
    ELSE findInstanceByName(instanceByName, callers[c].arg)

Returned(c) == callers[c].pc = "ret"

====
